---- MODULE Spec2Model ----
(***************************************************************************)
(* Username search engine of deepkrak3n: SearchService (bounded fan-out,  *)
(* retries, response classification) on top of ProxyManager.               *)
(*                                                                         *)
(* Scheduling follows asyncio: a coroutine runs without interruption until *)
(* it awaits something that is not ready.  The suspension points of a      *)
(* per-site task are the semaphore (when no permit is free), client.get    *)
(* and asyncio.sleep; every action below is the code that runs between two *)
(* of them.  The proxy pool's lock is never held across an await, so its   *)
(* critical sections are parts of a step.  The on_result callback returns  *)
(* or raises without suspending, as the stream endpoint's queue.put does.  *)
(*                                                                         *)
(* Text is a sequence of one-character strings; Python's None is the       *)
(* string "None" in optional string fields, 0 for an optional proxy record *)
(* and NoLimit for the optional limit.  Profile details (the OG meta       *)
(* scraper) and the resolved url are not part of the model.                *)
(*                                                                         *)
(* Specifications: Spec (search with and without callback), SpecLive (Spec *)
(* under the event loop's fairness), SpecLimit (every limit), SpecClassify *)
(* (the classifier alone), SpecPool (ProxyManager and its clients alone),  *)
(* SpecProxied (search through an enabled pool), SpecStream (the stream    *)
(* endpoint).  Time is a clock of ticks; the cooldown is 2 ticks.          *)
(***************************************************************************)
EXTENDS Integers, Sequences, FiniteSets, TLC

(* ---------------------------- bounds ---------------------------------- *)
NumSites == 2
MaxConcurrency == 2
MaxLen == 3
MaxProxies == 2
MaxNow == 3
MaxMarks == 2

(* ------------------------ program constants --------------------------- *)
max_retries == 2
NoLimit == -1
None == "None"

(* ------------------------------ text ---------------------------------- *)
Chars == {"a", "A", "b"}

LowerChar(c) == IF c = "A" THEN "a" ELSE IF c = "B" THEN "b" ELSE c

lower(s) == [i \in DOMAIN s |-> LowerChar(s[i])]

\* Python's `needle in hay` on str
Contains(needle, hay) ==
    \E i \in 0..(Len(hay) - Len(needle)) :
        SubSeq(hay, i + 1, i + Len(needle)) = needle

\* any(k in text for k in keywords)
AnyIn(keywords, text) ==
    \E j \in DOMAIN keywords : Contains(keywords[j], text)

Texts(n) == UNION {[1..k -> Chars] : k \in 0..n}

(* --------------------------- site catalog ----------------------------- *)
\* _load_platform_catalog: positive_keywords = [name.lower()], no negative
\* keywords, allow_redirect False.  Names are "A", "AA", "AAA", ...
SiteEntry(i) ==
    LET name == [j \in 1..i |-> "A"]
    IN  [name |-> name,
         positive_keywords |-> <<lower(name)>>,
         negative_keywords |-> <<>>,
         allow_redirect |-> FALSE]

SITES_DB == [i \in 1..NumSites |-> SiteEntry(i)]

\* SITES_DB[:limit] if limit else SITES_DB     (limit None is NoLimit)
TruncatedCatalog(db, limit) ==
    IF limit # NoLimit /\ limit # 0
    THEN SubSeq(db, 1, IF limit < Len(db) THEN limit ELSE Len(db))
    ELSE db

(* ------------------------ response classifier ------------------------- *)
Verdict(found, state, reason) ==
    [found |-> found, state |-> state, reason |-> reason]

\* variant: the username looked up as typed, not lower-cased
_analyze_response_username_as_typed(status_code, text, username, site) ==
    LET text_lower == lower(text)
        positives == [j \in DOMAIN site.positive_keywords |->
                          lower(site.positive_keywords[j])]
        negatives == [j \in DOMAIN site.negative_keywords |->
                          lower(site.negative_keywords[j])]
        contains_username == Contains(username, text_lower)
        contains_positive == AnyIn(positives, text_lower)
    IN  IF status_code = 404 THEN Verdict(FALSE, "not_found", "Profile not found")
        ELSE IF status_code = 403 THEN Verdict(FALSE, "blocked", "Access forbidden")
        ELSE IF status_code = 429 THEN Verdict(FALSE, "rate_limited", "Rate limited")
        ELSE IF status_code >= 500 THEN Verdict(FALSE, "server_error", "Server error")
        ELSE IF status_code \in {301, 302} /\ ~site.allow_redirect
             THEN Verdict(FALSE, "redirect", "Redirected")
        ELSE IF AnyIn(negatives, text_lower)
             THEN Verdict(FALSE, "not_found", "Site negative signal")
        ELSE IF status_code = 200 /\ contains_positive /\ contains_username
             THEN Verdict(TRUE, "found", "Positive keyword and username")
        ELSE IF status_code = 200 /\ contains_username
             THEN Verdict(TRUE, "found", "Username present")
        ELSE IF status_code = 200 /\ contains_positive
             THEN Verdict(FALSE, "unknown", "Positive keyword only")
        ELSE Verdict(FALSE, "unknown", "Unable to confirm")

\* variant: the server-error rule written with > instead of >=
_analyze_response_above_500(status_code, text, username, site) ==
    LET text_lower == lower(text)
        positives == [j \in DOMAIN site.positive_keywords |->
                          lower(site.positive_keywords[j])]
        negatives == [j \in DOMAIN site.negative_keywords |->
                          lower(site.negative_keywords[j])]
        username_lower == lower(username)
        contains_username == Contains(username_lower, text_lower)
        contains_positive == AnyIn(positives, text_lower)
    IN  IF status_code = 404 THEN Verdict(FALSE, "not_found", "Profile not found")
        ELSE IF status_code = 403 THEN Verdict(FALSE, "blocked", "Access forbidden")
        ELSE IF status_code = 429 THEN Verdict(FALSE, "rate_limited", "Rate limited")
        ELSE IF status_code > 500 THEN Verdict(FALSE, "server_error", "Server error")
        ELSE IF status_code \in {301, 302} /\ ~site.allow_redirect
             THEN Verdict(FALSE, "redirect", "Redirected")
        ELSE IF AnyIn(negatives, text_lower)
             THEN Verdict(FALSE, "not_found", "Site negative signal")
        ELSE IF status_code = 200 /\ contains_positive /\ contains_username
             THEN Verdict(TRUE, "found", "Positive keyword and username")
        ELSE IF status_code = 200 /\ contains_username
             THEN Verdict(TRUE, "found", "Username present")
        ELSE IF status_code = 200 /\ contains_positive
             THEN Verdict(FALSE, "unknown", "Positive keyword only")
        ELSE Verdict(FALSE, "unknown", "Unable to confirm")

_analyze_response(status_code, text, username, site) ==
    LET text_lower == lower(text)
        positives == [j \in DOMAIN site.positive_keywords |->
                          lower(site.positive_keywords[j])]
        negatives == [j \in DOMAIN site.negative_keywords |->
                          lower(site.negative_keywords[j])]
        username_lower == lower(username)
        contains_username == Contains(username_lower, text_lower)
        contains_positive == AnyIn(positives, text_lower)
    IN  IF status_code = 404 THEN Verdict(FALSE, "not_found", "Profile not found")
        ELSE IF status_code = 403 THEN Verdict(FALSE, "blocked", "Access forbidden")
        ELSE IF status_code = 429 THEN Verdict(FALSE, "rate_limited", "Rate limited")
        ELSE IF status_code >= 500 THEN Verdict(FALSE, "server_error", "Server error")
        ELSE IF status_code \in {301, 302} /\ ~site.allow_redirect
             THEN Verdict(FALSE, "redirect", "Redirected")
        ELSE IF AnyIn(negatives, text_lower)
             THEN Verdict(FALSE, "not_found", "Site negative signal")
        ELSE IF status_code = 200 /\ contains_positive /\ contains_username
             THEN Verdict(TRUE, "found", "Positive keyword and username")
        ELSE IF status_code = 200 /\ contains_username
             THEN Verdict(TRUE, "found", "Username present")
        ELSE IF status_code = 200 /\ contains_positive
             THEN Verdict(FALSE, "unknown", "Positive keyword only")
        ELSE Verdict(FALSE, "unknown", "Unable to confirm")

(* ------------------------- exception kinds ---------------------------- *)
\* "timeout" is an httpx.TimeoutException (a subclass of RequestError),
\* "request" any other httpx.RequestError, "other" any other Exception.
ExcKinds == {"timeout", "request", "other"}

IsTimeoutException(exc) == exc = "timeout"
IsRequestError(exc) == exc \in {"timeout", "request"}

\* variant: the RequestError test made before the TimeoutException test
_state_from_exception_swapped(exc) ==
    IF IsRequestError(exc) THEN [state |-> "network_error", reason |-> exc]
    ELSE IF IsTimeoutException(exc) THEN [state |-> "timeout", reason |-> "Timeout"]
    ELSE [state |-> "error", reason |-> exc]

_state_from_exception(exc) ==
    IF IsTimeoutException(exc) THEN [state |-> "timeout", reason |-> "Timeout"]
    ELSE IF IsRequestError(exc) THEN [state |-> "network_error", reason |-> exc]
    ELSE [state |-> "error", reason |-> exc]

(* ------------------------------- state -------------------------------- *)
VARIABLES
    max_concurrency,  \* SearchService.max_concurrency
    enabled,          \* ProxyManager.enabled
    proxies,          \* ProxyManager.proxies
    index,            \* ProxyManager._index
    rotation_mode,    \* ProxyManager.rotation_mode
    now,              \* time.time()
    phase,            \* search_username: "idle", "running", "returned", "raised"
    limit,            \* argument limit of the running call
    on_result,        \* TRUE when a callback was supplied
    sites,            \* local `sites`
    results,          \* local `results`
    sem,              \* free permits of the semaphore
    sem_waiters,      \* tasks queued on the semaphore, first come first served
    pc,               \* where each check_site task is suspended
    proxy,            \* check_site's `proxy` (position in proxies, 0 for None)
    attempt,          \* _fetch_with_retries' loop variable
    last_exc,         \* the exception _fetch_with_retries last caught, None
                      \* once it has returned a response
    sent,             \* HTTP requests issued by each task
    fetched,          \* outcome of each finished HTTP attempt of each task
    delivered,        \* the results handed to on_result, in call order
    outcome,          \* the dictionary search_username returned
    cl_in,            \* classifier input under test
    cl_out,           \* classifier output for cl_in
    allow_direct_fallback,  \* ProxyManager.allow_direct_fallback
    auto_fetch_if_missing,  \* ProxyManager.auto_fetch_if_missing
    call,             \* the call a client of the pool made in the last step
    toggle_pc,        \* where each proxy_toggle request is suspended
    snapshot_out,     \* what snapshot() returned in the last step
    stream_pc,        \* event_generator: "idle", "reading", "closed"
    taken,            \* site_result events event_generator has got from the queue
    finals,           \* what run_search has put on the queue and is not yet got
    emitted,          \* the events event_generator has yielded
    result_data       \* run_search's result_data: <<>> for {}, else <<dict>>

(* ----------------------------- proxy pool ----------------------------- *)
\* PROXY_FAILURE_COOLDOWN_SECONDS, in ticks of the clock `now`
failure_cooldown == 2

ProxyNames == <<"proxy-1", "proxy-2", "proxy-3", "proxy-4">>
ProxyUrls == <<"http://10.0.0.1:80", "http://10.0.0.2:80",
               "http://10.0.0.3:80", "http://10.0.0.4:80">>

\* ProxyRecord(url=p, id=f"proxy-{idx}") with the dataclass defaults
ProxyRecord(i) ==
    [id |-> ProxyNames[i], url |-> ProxyUrls[i], last_failure_ts |-> 0,
     success_count |-> 0, failure_count |-> 0]

\* variant: a cooldown that must be exceeded, not merely reached
CooledDown_strictly(p, t) == p.last_failure_ts # 0 /\ t - p.last_failure_ts > failure_cooldown

CooledDown(p, t) == p.last_failure_ts # 0 /\ t - p.last_failure_ts >= failure_cooldown

\* _healthy_pool: the positions of the healthy records, and the record list
\* after the reset of the records whose cooldown has lapsed
_healthy_pool(ps, t) ==
    LET Healthy(p) == p.last_failure_ts = 0 \/ CooledDown(p, t)
        RECURSIVE Go(_)
        Go(i) == IF i > Len(ps) THEN <<>>
                 ELSE IF Healthy(ps[i]) THEN <<i>> \o Go(i + 1) ELSE Go(i + 1)
    IN  [healthy |-> Go(1),
         proxies |-> [i \in DOMAIN ps |->
                        IF CooledDown(ps[i], t)
                        THEN [ps[i] EXCEPT !.last_failure_ts = 0]
                        ELSE ps[i]]]

\* variant: the enabled flag not looked at
get_proxy_ignores_enabled(on, ps, idx, mode, t) ==
    IF Len(ps) = 0
    THEN {[choice |-> 0, proxies |-> ps, index |-> idx]}
    ELSE LET hp == _healthy_pool(ps, t)
             pool == hp.healthy
         IN  IF Len(pool) = 0
             THEN {[choice |-> 0, proxies |-> hp.proxies, index |-> idx]}
             ELSE IF mode = "random_healthy"
             THEN {[choice |-> pool[k], proxies |-> hp.proxies, index |-> idx] :
                       k \in 1..Len(pool)}
             ELSE {[choice |-> pool[(idx % Len(pool)) + 1],
                    proxies |-> hp.proxies,
                    index |-> (idx + 1) % Len(pool)]}

\* variant: without direct fallback the first record is handed out while it
\* is in its cooldown
get_proxy_no_fallback(on, ps, idx, mode, t) ==
    IF ~on \/ Len(ps) = 0
    THEN {[choice |-> 0, proxies |-> ps, index |-> idx]}
    ELSE LET hp == _healthy_pool(ps, t)
             pool == hp.healthy
         IN  IF Len(pool) = 0
             THEN {[choice |-> IF allow_direct_fallback THEN 0 ELSE 1,
                    proxies |-> hp.proxies, index |-> idx]}
             ELSE IF mode = "random_healthy"
             THEN {[choice |-> pool[k], proxies |-> hp.proxies, index |-> idx] :
                       k \in 1..Len(pool)}
             ELSE {[choice |-> pool[(idx % Len(pool)) + 1],
                    proxies |-> hp.proxies,
                    index |-> (idx + 1) % Len(pool)]}

\* variant: the round-robin cursor is read but not advanced
get_proxy_cursor_stuck(on, ps, idx, mode, t) ==
    IF ~on \/ Len(ps) = 0
    THEN {[choice |-> 0, proxies |-> ps, index |-> idx]}
    ELSE LET hp == _healthy_pool(ps, t)
             pool == hp.healthy
         IN  IF Len(pool) = 0
             THEN {[choice |-> 0, proxies |-> hp.proxies, index |-> idx]}
             ELSE IF mode = "random_healthy"
             THEN {[choice |-> pool[k], proxies |-> hp.proxies, index |-> idx] :
                       k \in 1..Len(pool)}
             ELSE {[choice |-> pool[(idx % Len(pool)) + 1],
                    proxies |-> hp.proxies,
                    index |-> idx]}

\* variant: the round-robin cursor advanced without wrapping
get_proxy_unwrapped(on, ps, idx, mode, t) ==
    IF ~on \/ Len(ps) = 0
    THEN {[choice |-> 0, proxies |-> ps, index |-> idx]}
    ELSE LET hp == _healthy_pool(ps, t)
             pool == hp.healthy
         IN  IF Len(pool) = 0
             THEN {[choice |-> 0, proxies |-> hp.proxies, index |-> idx]}
             ELSE IF mode = "random_healthy"
             THEN {[choice |-> pool[k], proxies |-> hp.proxies, index |-> idx] :
                       k \in 1..Len(pool)}
             ELSE {[choice |-> pool[(idx % Len(pool)) + 1],
                    proxies |-> hp.proxies,
                    index |-> idx + 1]}

\* get_proxy: the set of possible results [choice, proxies, index]; choice is
\* the position of the returned record, 0 for None
get_proxy(on, ps, idx, mode, t) ==
    IF ~on \/ Len(ps) = 0
    THEN {[choice |-> 0, proxies |-> ps, index |-> idx]}
    ELSE LET hp == _healthy_pool(ps, t)
             pool == hp.healthy
         IN  IF Len(pool) = 0
             THEN {[choice |-> IF allow_direct_fallback THEN 0 ELSE 0,
                    proxies |-> hp.proxies, index |-> idx]}
             ELSE IF mode = "random_healthy"
             THEN {[choice |-> pool[k], proxies |-> hp.proxies, index |-> idx] :
                       k \in 1..Len(pool)}
             ELSE {[choice |-> pool[(idx % Len(pool)) + 1],
                    proxies |-> hp.proxies,
                    index |-> (idx + 1) % Len(pool)]}

\* _choose_proxy: no pool access at all when the manager is disabled
_choose_proxy(on, ps, idx, mode, t) ==
    IF ~on THEN {[choice |-> 0, proxies |-> ps, index |-> idx]}
    ELSE get_proxy(on, ps, idx, mode, t)

FirstWithId(ps, proxy_id) ==
    LET hits == {i \in DOMAIN ps : ps[i].id = proxy_id}
    IN  IF hits = {} THEN 0 ELSE CHOOSE i \in hits : \A j \in hits : i <= j

\* variant: the first record marked, whatever its id
mark_failure_first_record(ps, proxy_id, t) ==
    IF Len(ps) = 0 THEN ps
    ELSE [ps EXCEPT ![1].last_failure_ts = t,
                    ![1].failure_count = @ + 1]

mark_failure(ps, proxy_id, t) ==
    LET i == FirstWithId(ps, proxy_id)
    IN  IF i = 0 THEN ps
        ELSE [ps EXCEPT ![i].last_failure_ts = t,
                        ![i].failure_count = @ + 1]

\* variant: a success clears the record's failure time
mark_success_heals(ps, proxy_id) ==
    LET i == FirstWithId(ps, proxy_id)
    IN  IF i = 0 THEN ps
        ELSE [ps EXCEPT ![i].success_count = @ + 1,
                        ![i].last_failure_ts = 0]

mark_success(ps, proxy_id) ==
    LET i == FirstWithId(ps, proxy_id)
    IN  IF i = 0 THEN ps
        ELSE [ps EXCEPT ![i].success_count = @ + 1]

searchVars == <<phase, limit, on_result, sites, results, sem, sem_waiters, pc,
                proxy, attempt, last_exc, sent, fetched, delivered, outcome>>
poolVars == <<enabled, proxies, index, rotation_mode, now>>
classifyVars == <<cl_in, cl_out>>
poolConfVars == <<allow_direct_fallback, auto_fetch_if_missing>>
clientVars == <<call, toggle_pc, snapshot_out>>
streamVars == <<stream_pc, taken, finals, emitted, result_data>>
restVars == <<poolConfVars, clientVars, streamVars>>
vars == <<max_concurrency, searchVars, poolVars, classifyVars, restVars>>

Tasks == 1..NumSites
Running == DOMAIN sites

NoOutcome ==
    [total_checked |-> 0, total_found |-> 0,
     found_profiles |-> <<>>, all_results |-> <<>>]

NoClassifierInput ==
    [status_code |-> 200, text |-> <<>>, username |-> <<>>,
     site |-> SiteEntry(1)]

SearchIdle ==
    /\ phase = "idle"
    /\ sites = <<>>
    /\ results = <<>>
    /\ sem = 0
    /\ sem_waiters = <<>>
    /\ pc = [t \in Tasks |-> "idle"]
    /\ proxy = [t \in Tasks |-> 0]
    /\ attempt = [t \in Tasks |-> 0]
    /\ last_exc = [t \in Tasks |-> None]
    /\ sent = [t \in Tasks |-> 0]
    /\ fetched = [t \in Tasks |-> <<>>]
    /\ delivered = <<>>
    /\ outcome = NoOutcome

PoolOff ==
    /\ enabled = FALSE
    /\ proxies = <<>>
    /\ index = 0
    /\ rotation_mode = "round_robin"
    /\ now = 1

\* PROXY_ALLOW_DIRECT_FALLBACK and PROXY_AUTO_FETCH unset
PoolConfDefault ==
    /\ allow_direct_fallback = TRUE
    /\ auto_fetch_if_missing = TRUE

NoCall == [name |-> "none", arg |-> None, result |-> 0]

\* two proxy_toggle requests, enough for one to overlap the other
Requests == {"first", "second"}

\* no snapshot() in the last step
NoSnapshot ==
    [enabled |-> FALSE, count |-> 0, rotation |-> None, cooldown_seconds |-> 0,
     allow_direct_fallback |-> FALSE, proxies |-> <<>>]

ClientsIdle ==
    /\ call = NoCall
    /\ toggle_pc = [r \in Requests |-> "idle"]
    /\ snapshot_out = NoSnapshot

StreamIdle ==
    /\ stream_pc = "idle"
    /\ taken = 0
    /\ finals = <<>>
    /\ emitted = <<>>
    /\ result_data = <<>>

NoVerdict == [found |-> FALSE, state |-> None, reason |-> None]

ClassifierIdle ==
    /\ cl_in = NoClassifierInput
    /\ cl_out = NoVerdict

Limits == {NoLimit} \cup (0..(NumSites + 1))

\* after construction of the service with PROXY_ENABLED unset and no PROXY_LIST;
\* limit and on_result are the arguments of the call to come
Init ==
    /\ max_concurrency \in 1..MaxConcurrency
    /\ limit \in {NoLimit, 1}
    /\ on_result \in BOOLEAN
    /\ SearchIdle
    /\ PoolOff
    /\ PoolConfDefault
    /\ ClientsIdle
    /\ StreamIdle
    /\ ClassifierIdle

(* ------------------------- search_username ---------------------------- *)
Username == <<"b">>

\* variant: the budget without the first attempt
attempts_retries_only == max_retries

attempts == max_retries + 1

\* what the mocked transport can answer to one GET
Responses ==
    {[status_code |-> 200, text |-> <<"a", "B">>],
     [status_code |-> 200, text |-> <<"a", "a">>],
     [status_code |-> 404, text |-> <<"b">>]}

ProxyIdOf(t) == IF proxy[t] # 0 THEN proxies[proxy[t]].id ELSE None
ProxyUrlOf(t) == IF proxy[t] # 0 THEN proxies[proxy[t]].url ELSE None

\* SiteResult built on the success path of check_site
SuccessResult(t, resp) ==
    LET v == _analyze_response(resp.status_code, resp.text, Username, sites[t])
    IN  [site |-> sites[t].name, found |-> v.found, state |-> v.state,
         status_code |-> resp.status_code, via_proxy |-> ProxyIdOf(t) # None,
         proxy_id |-> ProxyIdOf(t), proxy_url |-> ProxyUrlOf(t),
         latency_ms |-> "measured", reason |-> v.reason]

\* variant: the except clause leaves out the proxy id
ExceptionResult_without_proxy_id(t, exc) ==
    LET s == _state_from_exception(exc)
    IN  [site |-> sites[t].name, found |-> FALSE, state |-> s.state,
         status_code |-> 0, via_proxy |-> proxy[t] # 0,
         proxy_id |-> None, proxy_url |-> ProxyUrlOf(t),
         latency_ms |-> None, reason |-> s.reason]

\* SiteResult built in the except clause of check_site
ExceptionResult(t, exc) ==
    LET s == _state_from_exception(exc)
    IN  [site |-> sites[t].name, found |-> FALSE, state |-> s.state,
         status_code |-> 0, via_proxy |-> proxy[t] # 0,
         proxy_id |-> ProxyIdOf(t), proxy_url |-> ProxyUrlOf(t),
         latency_ms |-> None, reason |-> s.reason]

\* sum(1 for r in results if r.found)
CountFound(rs) == Cardinality({i \in DOMAIN rs : rs[i].found})

\* [r.__dict__ for r in results if r.found]
FoundOnly(rs) ==
    LET RECURSIVE Go(_)
        Go(i) == IF i > Len(rs) THEN <<>>
                 ELSE IF rs[i].found THEN <<rs[i]>> \o Go(i + 1) ELSE Go(i + 1)
    IN  Go(1)

\* variant: total_found counts every result
Aggregate_counts_all(rs) ==
    [total_checked |-> Len(rs),
     total_found |-> Len(rs),
     found_profiles |-> FoundOnly(rs),
     all_results |-> rs]

\* the dictionary returned by search_username
Aggregate(rs) ==
    [total_checked |-> Len(rs),
     total_found |-> CountFound(rs),
     found_profiles |-> FoundOnly(rs),
     all_results |-> rs]

\* Semaphore.release as seen by the releasing task t, which moves on to `next`:
\* the permit goes to the first waiter if there is one
ReleaseSem(t, next) ==
    IF Len(sem_waiters) > 0
    THEN /\ sem' = sem
         /\ sem_waiters' = Tail(sem_waiters)
         /\ pc' = [pc EXCEPT ![t] = next, ![Head(sem_waiters)] = "sem_granted"]
    ELSE /\ sem' = sem + 1
         /\ sem_waiters' = sem_waiters
         /\ pc' = [pc EXCEPT ![t] = next]

\* variant: only found results are handed to the callback
Report_found_only(rs) ==
    /\ results' = results \o rs
    /\ delivered' = IF on_result THEN delivered \o FoundOnly(rs) ELSE delivered

\* results.append(result); if on_result: await on_result(result)
\* for each result of rs in turn
Report(rs) ==
    /\ results' = results \o rs
    /\ delivered' = IF on_result THEN delivered \o rs ELSE delivered

\* inside the semaphore: _choose_proxy, then the first client.get of
\* _fetch_with_retries is issued
EnterFetch(t) ==
    \E c \in _choose_proxy(enabled, proxies, index, rotation_mode, now) :
        /\ proxy' = [proxy EXCEPT ![t] = c.choice]
        /\ proxies' = c.proxies
        /\ index' = c.index
        /\ attempt' = [attempt EXCEPT ![t] = 0]
        /\ sent' = [sent EXCEPT ![t] = @ + 1]

\* the call: truncation of the catalog, the semaphore, one task per site
CallSearch ==
    /\ phase = "idle"
    /\ phase' = "running"
    /\ sites' = TruncatedCatalog(SITES_DB, limit)
    /\ results' = <<>>
    /\ sem' = max_concurrency
    /\ pc' = [t \in Tasks |-> IF t \in DOMAIN sites' THEN "created" ELSE "idle"]
    /\ UNCHANGED <<limit, on_result, sem_waiters, proxy, attempt, last_exc,
                   sent, fetched, delivered, outcome, max_concurrency,
                   poolVars, classifyVars,
                   restVars>>

\* gather starts the tasks in catalog order, before any I/O completes
NextToStart(t) ==
    /\ t \in Running
    /\ pc[t] = "created"
    /\ \A u \in Running : u < t => pc[u] # "created"

AllStarted == \A t \in Running : pc[t] # "created"

\* variant: the fetch is entered without a permit
StartWithPermit_unguarded(t) ==
    /\ NextToStart(t)
    /\ sem' = sem - 1
    /\ pc' = [pc EXCEPT ![t] = "get"]
    /\ EnterFetch(t)
    /\ UNCHANGED <<phase, limit, on_result, sites, results, sem_waiters,
                   last_exc, fetched, delivered, outcome, max_concurrency,
                   enabled, rotation_mode, now, classifyVars,
                   restVars>>

\* check_site up to its first await when a permit is free
StartWithPermit(t) ==
    /\ NextToStart(t)
    /\ sem > 0 /\ Len(sem_waiters) = 0
    /\ sem' = sem - 1
    /\ pc' = [pc EXCEPT ![t] = "get"]
    /\ EnterFetch(t)
    /\ UNCHANGED <<phase, limit, on_result, sites, results, sem_waiters,
                   last_exc, fetched, delivered, outcome, max_concurrency,
                   enabled, rotation_mode, now, classifyVars,
                   restVars>>

\* check_site up to its first await when the semaphore is exhausted
StartBlocked(t) ==
    /\ NextToStart(t)
    /\ ~(sem > 0 /\ Len(sem_waiters) = 0)
    /\ sem_waiters' = Append(sem_waiters, t)
    /\ pc' = [pc EXCEPT ![t] = "sem_wait"]
    /\ UNCHANGED <<phase, limit, on_result, sites, results, sem, proxy, attempt,
                   last_exc, sent, fetched, delivered, outcome, max_concurrency,
                   poolVars, classifyVars,
                   restVars>>

\* a task that was handed a permit resumes inside `async with sem`
ResumeWithPermit(t) ==
    /\ t \in Running
    /\ pc[t] = "sem_granted"
    /\ pc' = [pc EXCEPT ![t] = "get"]
    /\ EnterFetch(t)
    /\ UNCHANGED <<phase, limit, on_result, sites, results, sem, sem_waiters,
                   last_exc, fetched, delivered, outcome, max_concurrency,
                   enabled, rotation_mode, now, classifyVars,
                   restVars>>

\* client.get returns: mark_success, leave the semaphore, classify, report;
\* the callback, if there is one, returns
ReceiveResponse(t, resp) ==
    /\ t \in Running /\ AllStarted
    /\ pc[t] = "get"
    /\ fetched' = [fetched EXCEPT ![t] = Append(@, "ok")]
    /\ proxies' = IF ProxyIdOf(t) # None
                  THEN mark_success(proxies, ProxyIdOf(t)) ELSE proxies
    /\ last_exc' = [last_exc EXCEPT ![t] = None]
    /\ ReleaseSem(t, "done")
    /\ Report(<<SuccessResult(t, resp)>>)
    /\ UNCHANGED <<phase, limit, on_result, sites, proxy, attempt,
                   sent, outcome, max_concurrency, enabled, index,
                   rotation_mode, now, classifyVars,
                   restVars>>

\* as ReceiveResponse, but on_result raises inside the try block: the except
\* clause builds and reports a second result for the site; when on_result
\* raises again there, the exception leaves check_site
ReceiveResponseCallbackRaises(t, resp, again) ==
    /\ t \in Running /\ AllStarted
    /\ pc[t] = "get"
    /\ on_result
    /\ fetched' = [fetched EXCEPT ![t] = Append(@, "ok")]
    /\ proxies' = IF ProxyIdOf(t) # None
                  THEN mark_success(proxies, ProxyIdOf(t)) ELSE proxies
    /\ last_exc' = [last_exc EXCEPT ![t] = None]
    /\ ReleaseSem(t, IF again THEN "raised" ELSE "done")
    /\ Report(<<SuccessResult(t, resp), ExceptionResult(t, "other")>>)
    /\ UNCHANGED <<phase, limit, on_result, sites, proxy, attempt,
                   sent, outcome, max_concurrency, enabled, index,
                   rotation_mode, now, classifyVars,
                   restVars>>

\* variant: the failure is not reported while attempts remain
RequestFails_unreported(t, exc) ==
    /\ t \in Running /\ AllStarted
    /\ pc[t] = "get"
    /\ attempt[t] < attempts - 1
    /\ last_exc' = [last_exc EXCEPT ![t] = exc]
    /\ fetched' = [fetched EXCEPT ![t] = Append(@, "exc")]
    /\ proxies' = proxies
    /\ pc' = [pc EXCEPT ![t] = "sleep"]
    /\ UNCHANGED <<phase, limit, on_result, sites, results, sem, sem_waiters,
                   proxy, attempt, sent, delivered, outcome, max_concurrency,
                   enabled, index, rotation_mode, now, classifyVars,
                   restVars>>

\* client.get raises and attempts remain: mark_failure, then asyncio.sleep
RequestFails(t, exc) ==
    /\ t \in Running /\ AllStarted
    /\ pc[t] = "get"
    /\ attempt[t] < attempts - 1
    /\ last_exc' = [last_exc EXCEPT ![t] = exc]
    /\ fetched' = [fetched EXCEPT ![t] = Append(@, "exc")]
    /\ proxies' = IF ProxyIdOf(t) # None
                  THEN mark_failure(proxies, ProxyIdOf(t), now) ELSE proxies
    /\ pc' = [pc EXCEPT ![t] = "sleep"]
    /\ UNCHANGED <<phase, limit, on_result, sites, results, sem, sem_waiters,
                   proxy, attempt, sent, delivered, outcome, max_concurrency,
                   enabled, index, rotation_mode, now, classifyVars,
                   restVars>>

\* the backoff sleep is over: next iteration of the loop, next client.get
Retry(t) ==
    /\ t \in Running
    /\ pc[t] = "sleep"
    /\ attempt' = [attempt EXCEPT ![t] = @ + 1]
    /\ sent' = [sent EXCEPT ![t] = @ + 1]
    /\ pc' = [pc EXCEPT ![t] = "get"]
    /\ UNCHANGED <<phase, limit, on_result, sites, results, sem, sem_waiters,
                   proxy, last_exc, fetched, delivered, outcome,
                   max_concurrency, poolVars, classifyVars,
                   restVars>>

\* variant: check_site without its except clause
RequestFailsLast_uncaught(t, exc) ==
    /\ t \in Running /\ AllStarted
    /\ pc[t] = "get"
    /\ ~(attempt[t] < attempts - 1)
    /\ last_exc' = [last_exc EXCEPT ![t] = exc]
    /\ fetched' = [fetched EXCEPT ![t] = Append(@, "exc")]
    /\ proxies' = IF ProxyIdOf(t) # None
                  THEN mark_failure(proxies, ProxyIdOf(t), now) ELSE proxies
    /\ ReleaseSem(t, "raised")
    /\ UNCHANGED <<phase, limit, on_result, sites, results, delivered, proxy,
                   attempt, sent, outcome, max_concurrency, enabled, index,
                   rotation_mode, now, classifyVars,
                   restVars>>

\* client.get raises on the last attempt: mark_failure, the exception leaves
\* _fetch_with_retries and the semaphore, the except clause reports it
RequestFailsLast(t, exc) ==
    /\ t \in Running /\ AllStarted
    /\ pc[t] = "get"
    /\ ~(attempt[t] < attempts - 1)
    /\ last_exc' = [last_exc EXCEPT ![t] = exc]
    /\ fetched' = [fetched EXCEPT ![t] = Append(@, "exc")]
    /\ proxies' = IF ProxyIdOf(t) # None
                  THEN mark_failure(proxies, ProxyIdOf(t), now) ELSE proxies
    /\ ReleaseSem(t, "done")
    /\ Report(<<ExceptionResult(t, exc)>>)
    /\ UNCHANGED <<phase, limit, on_result, sites, proxy, attempt, sent,
                   outcome, max_concurrency, enabled, index, rotation_mode,
                   now, classifyVars,
                   restVars>>

\* as RequestFailsLast, but on_result raises inside the except clause: the
\* exception leaves check_site
RequestFailsLastCallbackRaises(t, exc) ==
    /\ t \in Running /\ AllStarted
    /\ pc[t] = "get"
    /\ on_result
    /\ ~(attempt[t] < attempts - 1)
    /\ last_exc' = [last_exc EXCEPT ![t] = exc]
    /\ fetched' = [fetched EXCEPT ![t] = Append(@, "exc")]
    /\ proxies' = IF ProxyIdOf(t) # None
                  THEN mark_failure(proxies, ProxyIdOf(t), now) ELSE proxies
    /\ ReleaseSem(t, "raised")
    /\ Report(<<ExceptionResult(t, exc)>>)
    /\ UNCHANGED <<phase, limit, on_result, sites, proxy, attempt, sent,
                   outcome, max_concurrency, enabled, index, rotation_mode,
                   now, classifyVars,
                   restVars>>

\* gather is complete: the aggregate is built and returned
SearchReturns ==
    /\ phase = "running"
    /\ \A t \in Running : pc[t] = "done"
    /\ phase' = "returned"
    /\ outcome' = Aggregate(results)
    /\ UNCHANGED <<limit, on_result, sites, results, sem, sem_waiters, pc,
                   proxy, attempt, last_exc, sent, fetched, delivered,
                   max_concurrency, poolVars, classifyVars,
                   restVars>>

\* gather propagates the first exception of a task; the other tasks go on
SearchRaises ==
    /\ phase = "running"
    /\ \E t \in Running : pc[t] = "raised"
    /\ phase' = "raised"
    /\ UNCHANGED <<limit, on_result, sites, results, sem, sem_waiters, pc,
                   proxy, attempt, last_exc, sent, fetched, delivered, outcome,
                   max_concurrency, poolVars, classifyVars,
                   restVars>>

Next ==
    \/ CallSearch
    \/ \E t \in Tasks : StartWithPermit(t)
    \/ \E t \in Tasks : StartBlocked(t)
    \/ \E t \in Tasks : ResumeWithPermit(t)
    \/ \E t \in Tasks, resp \in Responses : ReceiveResponse(t, resp)
    \/ \E t \in Tasks, exc \in ExcKinds : RequestFails(t, exc)
    \/ \E t \in Tasks : Retry(t)
    \/ \E t \in Tasks, exc \in ExcKinds : RequestFailsLast(t, exc)
    \/ \E t \in Tasks, resp \in Responses, again \in BOOLEAN :
           ReceiveResponseCallbackRaises(t, resp, again)
    \/ \E t \in Tasks, exc \in ExcKinds : RequestFailsLastCallbackRaises(t, exc)
    \/ SearchReturns
    \/ SearchRaises

Spec == Init /\ [][Next]_vars

(* --------------------- search_username, scheduled --------------------- *)
\* the steps of task t the event loop runs as soon as they are ready: its
\* start, its resumption with a permit, the end of its backoff sleep
TaskStep(t) ==
    \/ StartWithPermit(t)
    \/ StartBlocked(t)
    \/ ResumeWithPermit(t)
    \/ Retry(t)

\* the pending client.get of task t ends: it returns a response or raises
\* (the client's timeout bounds every request)
TransportStep(t) ==
    \/ \E resp \in Responses : ReceiveResponse(t, resp)
    \/ \E exc \in ExcKinds : RequestFails(t, exc)
    \/ \E exc \in ExcKinds : RequestFailsLast(t, exc)
    \/ \E resp \in Responses, again \in BOOLEAN :
           ReceiveResponseCallbackRaises(t, resp, again)
    \/ \E exc \in ExcKinds : RequestFailsLastCallbackRaises(t, exc)

\* the event loop runs every ready coroutine; every request ends
Fairness ==
    /\ \A t \in Tasks : WF_vars(TaskStep(t))
    /\ \A t \in Tasks : WF_vars(TransportStep(t))
    /\ WF_vars(SearchReturns)
    /\ WF_vars(SearchRaises)

SpecLive == Init /\ [][Next]_vars /\ Fairness

(* ------------- search_username without a callback, any limit ---------- *)
InitLimit ==
    /\ max_concurrency \in 1..MaxConcurrency
    /\ limit \in Limits
    /\ on_result = FALSE
    /\ SearchIdle
    /\ PoolOff
    /\ PoolConfDefault
    /\ ClientsIdle
    /\ StreamIdle
    /\ ClassifierIdle

NextLimit ==
    \/ CallSearch
    \/ \E t \in Tasks : StartWithPermit(t)
    \/ \E t \in Tasks : StartBlocked(t)
    \/ \E t \in Tasks : ResumeWithPermit(t)
    \/ \E t \in Tasks, resp \in Responses : ReceiveResponse(t, resp)
    \/ \E t \in Tasks, exc \in ExcKinds : RequestFails(t, exc)
    \/ \E t \in Tasks : Retry(t)
    \/ \E t \in Tasks, exc \in ExcKinds : RequestFailsLast(t, exc)
    \/ SearchReturns

SpecLimit == InitLimit /\ [][NextLimit]_vars

(* ----------------------- the classifier alone ------------------------- *)
StatusCodes == {200, 201, 301, 302, 403, 404, 429, 500, 503}

KeywordLists == {<<>>, << <<"a">> >>, << <<"A", "b">>, <<"b", "b">> >>}

SiteDescriptors ==
    [name : {<<"A">>},
     positive_keywords : KeywordLists,
     negative_keywords : KeywordLists,
     allow_redirect : BOOLEAN]

ClassifierInputs ==
    [status_code : StatusCodes,
     text : Texts(MaxLen),
     username : Texts(MaxLen - 1),
     site : SiteDescriptors]

InitClassify ==
    /\ max_concurrency = 1
    /\ limit = NoLimit
    /\ on_result = FALSE
    /\ SearchIdle
    /\ PoolOff
    /\ PoolConfDefault
    /\ ClientsIdle
    /\ StreamIdle
    /\ cl_in \in ClassifierInputs
    /\ cl_out = NoVerdict

Classify ==
    /\ cl_out = NoVerdict
    /\ cl_out' = _analyze_response(cl_in.status_code, cl_in.text,
                                   cl_in.username, cl_in.site)
    /\ UNCHANGED <<cl_in, max_concurrency, searchVars, poolVars, restVars>>

NextClassify == Classify

SpecClassify == InitClassify /\ [][NextClassify]_vars

(* --------------------------- the pool alone --------------------------- *)
\* the ids a client can pass: those of a full pool and one no pool ever holds
ProxyIds == {ProxyNames[i] : i \in 1..MaxProxies} \cup {"proxy-0"}

\* after construction with a PROXY_LIST of 0..MaxProxies entries and any
\* setting of PROXY_ENABLED, PROXY_ROTATION_MODE, PROXY_ALLOW_DIRECT_FALLBACK
\* and PROXY_AUTO_FETCH
InitPool ==
    /\ max_concurrency = 1
    /\ limit = NoLimit
    /\ on_result = FALSE
    /\ SearchIdle
    /\ ClassifierIdle
    /\ enabled \in BOOLEAN
    /\ \E n \in 0..MaxProxies : proxies = [i \in 1..n |-> ProxyRecord(i)]
    /\ index = 0
    /\ rotation_mode \in {"round_robin", "random_healthy"}
    /\ now = 1
    /\ allow_direct_fallback \in BOOLEAN
    /\ auto_fetch_if_missing \in BOOLEAN
    /\ ClientsIdle
    /\ StreamIdle

\* the mark_failure and mark_success calls the records have counted
Marks(ps) ==
    LET RECURSIVE Go(_)
        Go(i) == IF i > Len(ps) THEN 0
                 ELSE ps[i].success_count + ps[i].failure_count + Go(i + 1)
    IN  Go(1)

\* await proxy_manager.get_proxy()
GetProxy ==
    \E r \in get_proxy(enabled, proxies, index, rotation_mode, now) :
        /\ proxies' = r.proxies
        /\ index' = r.index
        /\ call' = [name |-> "get_proxy", arg |-> None, result |-> r.choice]
        /\ UNCHANGED <<enabled, rotation_mode, now, max_concurrency, searchVars,
                       classifyVars, poolConfVars, toggle_pc,
                       streamVars>>
        /\ snapshot_out' = NoSnapshot

\* await proxy_manager.mark_failure(proxy_id)
MarkFailure(proxy_id) ==
    /\ Marks(proxies) < MaxMarks
    /\ proxies' = mark_failure(proxies, proxy_id, now)
    /\ call' = [name |-> "mark_failure", arg |-> proxy_id, result |-> 0]
    /\ UNCHANGED <<enabled, index, rotation_mode, now, max_concurrency,
                   searchVars, classifyVars, poolConfVars, toggle_pc,
                   streamVars>>
    /\ snapshot_out' = NoSnapshot

\* await proxy_manager.mark_success(proxy_id)
MarkSuccess(proxy_id) ==
    /\ Marks(proxies) < MaxMarks
    /\ proxies' = mark_success(proxies, proxy_id)
    /\ call' = [name |-> "mark_success", arg |-> proxy_id, result |-> 0]
    /\ UNCHANGED <<enabled, index, rotation_mode, now, max_concurrency,
                   searchVars, classifyVars, poolConfVars, toggle_pc,
                   streamVars>>
    /\ snapshot_out' = NoSnapshot

\* time.time() moves on between two steps
Tick ==
    /\ now < MaxNow
    /\ now' = now + 1
    /\ call' = NoCall
    /\ UNCHANGED <<enabled, proxies, index, rotation_mode, max_concurrency,
                   searchVars, classifyVars, poolConfVars, toggle_pc,
                   streamVars>>
    /\ snapshot_out' = NoSnapshot

\* ProxyRecord.is_healthy
is_healthy(p) == p.last_failure_ts = 0

\* snapshot: the dictionary returned
snapshot(on, ps, mode) ==
    [enabled |-> on,
     count |-> Len(ps),
     rotation |-> mode,
     cooldown_seconds |-> failure_cooldown,
     allow_direct_fallback |-> allow_direct_fallback,
     proxies |-> [i \in 1..Len(ps) |->
                     [id |-> ps[i].id,
                      healthy |-> is_healthy(ps[i]),
                      last_failure_ts |-> ps[i].last_failure_ts,
                      success_count |-> ps[i].success_count,
                      failure_count |-> ps[i].failure_count]]]

\* variant: set_enabled without the look at the pool
set_enabled_whatever_the_pool(want, ps) == want

\* set_enabled: the value the flag takes
set_enabled(want, ps) == want /\ ps # <<>>

\* ensure_proxies up to its await: it goes on to the network when the pool
\* is empty and _auto_fetch_proxies is allowed to fetch
EnsureSuspends(ps) == ps = <<>> /\ auto_fetch_if_missing

\* ensure_proxies after its await: a non-empty fetched list of n urls
\* becomes the pool
ensure_proxies_resumed(ps, n) ==
    IF n > 0 THEN [i \in 1..n |-> ProxyRecord(i)] ELSE ps

\* POST /api/proxy/toggle up to its first await, or to its end when
\* ensure_proxies is not called or returns without suspending
ToggleBegin(r, want) ==
    /\ toggle_pc[r] = "idle"
    /\ IF want /\ proxies = <<>> /\ EnsureSuspends(proxies)
       THEN /\ toggle_pc' = [toggle_pc EXCEPT ![r] = "fetch"]
            /\ enabled' = enabled
       ELSE /\ toggle_pc' = toggle_pc
            /\ enabled' = set_enabled(want, proxies)
    /\ call' = [name |-> "proxy_toggle", arg |-> IF want THEN "on" ELSE "off",
                result |-> 0]
    /\ UNCHANGED <<proxies, index, rotation_mode, now, max_concurrency,
                   searchVars, classifyVars, poolConfVars,
                   streamVars>>
    /\ snapshot_out' = NoSnapshot

\* the fetch of the proxy list ends with n urls (none when it raised):
\* ensure_proxies finishes and the toggle request runs to its end
FetchReturns(r, n) ==
    /\ toggle_pc[r] = "fetch"
    /\ proxies' = ensure_proxies_resumed(proxies, n)
    /\ enabled' = set_enabled(TRUE, proxies')
    /\ toggle_pc' = [toggle_pc EXCEPT ![r] = "idle"]
    /\ call' = [name |-> "ensure_proxies", arg |-> None, result |-> n]
    /\ UNCHANGED <<index, rotation_mode, now, max_concurrency,
                   searchVars, classifyVars, poolConfVars,
                   streamVars>>
    /\ snapshot_out' = NoSnapshot

\* proxy_manager.snapshot(), the first statement of GET /api/network/status
\* (the get_proxy that request makes later is a GetProxy step)
Snapshot ==
    /\ snapshot_out' = snapshot(enabled, proxies, rotation_mode)
    /\ call' = [name |-> "snapshot", arg |-> None, result |-> 0]
    /\ UNCHANGED <<poolVars, max_concurrency, searchVars, classifyVars,
                   poolConfVars, toggle_pc, streamVars>>

NextPool ==
    \/ GetProxy
    \/ Snapshot
    \/ \E proxy_id \in ProxyIds : MarkFailure(proxy_id)
    \/ \E proxy_id \in ProxyIds : MarkSuccess(proxy_id)
    \/ Tick
    \/ \E r \in Requests, want \in BOOLEAN : ToggleBegin(r, want)
    \/ \E r \in Requests, n \in 0..MaxProxies : FetchReturns(r, n)

SpecPool == InitPool /\ [][NextPool]_vars

(* ------------------- search_username through the pool ----------------- *)
\* after construction with PROXY_ENABLED set, a PROXY_LIST of 1..MaxProxies
\* entries and the default rotation; the call to come has no limit and no
\* callback
InitProxied ==
    /\ max_concurrency \in 1..MaxConcurrency
    /\ limit = NoLimit
    /\ on_result = FALSE
    /\ SearchIdle
    /\ ClassifierIdle
    /\ enabled = TRUE
    /\ \E n \in 1..MaxProxies : proxies = [i \in 1..n |-> ProxyRecord(i)]
    /\ index = 0
    /\ rotation_mode = "round_robin"
    /\ now = 1
    /\ allow_direct_fallback \in BOOLEAN
    /\ auto_fetch_if_missing = TRUE
    /\ ClientsIdle
    /\ StreamIdle

\* what the transport behind a proxy answers or raises
ProxiedResponses == {[status_code |-> 200, text |-> <<"a", "B">>]}
ProxiedExcKinds == {"timeout"}

NextProxied ==
    \/ CallSearch
    \/ \E t \in Tasks : StartWithPermit(t)
    \/ \E t \in Tasks : StartBlocked(t)
    \/ \E t \in Tasks : ResumeWithPermit(t)
    \/ \E t \in Tasks, resp \in ProxiedResponses : ReceiveResponse(t, resp)
    \/ \E t \in Tasks, exc \in ProxiedExcKinds : RequestFails(t, exc)
    \/ \E t \in Tasks : Retry(t)
    \/ \E t \in Tasks, exc \in ProxiedExcKinds : RequestFailsLast(t, exc)
    \/ SearchReturns
    \/ Tick

SpecProxied == InitProxied /\ [][NextProxied]_vars

(* ------------------ GET /api/search/username/stream -------------------- *)
\* the stream endpoint's on_result is queue.put on an unbounded queue: it
\* never raises, and what it has put is what `delivered` records
InitStream ==
    /\ max_concurrency \in 1..MaxConcurrency
    /\ limit \in {NoLimit, 1}
    /\ on_result = TRUE
    /\ SearchIdle
    /\ PoolOff
    /\ PoolConfDefault
    /\ ClientsIdle
    /\ StreamIdle
    /\ ClassifierIdle

\* {"type": "site_result", ...} for the k-th result handed to on_result
SiteEvent(k) == [type |-> "site_result", n |-> k]

\* the asyncio.Queue: the site_result events not yet got, then what
\* run_search has put after the search ended
Queue ==
    [k \in 1..(Len(delivered) - taken) |-> SiteEvent(taken + k)]
        \o [k \in DOMAIN finals |-> [type |-> finals[k], n |-> 0]]

\* event_generator up to its first queue.get: run_search is scheduled
StreamRequest ==
    /\ stream_pc = "idle"
    /\ stream_pc' = "reading"
    /\ UNCHANGED <<taken, finals, emitted, result_data, max_concurrency,
                   searchVars, poolVars, classifyVars, poolConfVars, clientVars>>

\* run_search starts and calls search_username
RunSearchCalls ==
    /\ stream_pc = "reading"
    /\ CallSearch

\* search_username raises before any task exists (httpx.AsyncClient cannot
\* be built): the except clause puts the error event, finally the marker
RunSearchFails ==
    /\ stream_pc = "reading"
    /\ phase = "idle"
    /\ phase' = "raised"
    /\ finals' = finals \o <<"error", "_done">>
    /\ UNCHANGED <<limit, on_result, sites, results, sem, sem_waiters, pc,
                   proxy, attempt, last_exc, sent, fetched, delivered, outcome,
                   max_concurrency, poolVars, classifyVars, poolConfVars,
                   clientVars, stream_pc, taken, emitted, result_data>>

\* gather is complete: search_username returns, run_search keeps the
\* aggregate in result_data and puts the marker
RunSearchReturns ==
    /\ phase = "running"
    /\ \A t \in Running : pc[t] = "done"
    /\ phase' = "returned"
    /\ outcome' = Aggregate(results)
    /\ result_data' = <<outcome'>>
    /\ finals' = Append(finals, "_done")
    /\ UNCHANGED <<limit, on_result, sites, results, sem, sem_waiters, pc,
                   proxy, attempt, last_exc, sent, fetched, delivered,
                   max_concurrency, poolVars, classifyVars, poolConfVars,
                   clientVars, stream_pc, taken, emitted>>

\* variant: the summary is yielded whether or not result_data was set
search_complete_always(data) ==
    <<[type |-> "search_complete",
       n |-> IF data # <<>> THEN data[1].total_checked ELSE 0]>>

\* what event_generator yields after the loop: the summary if result_data
search_complete(data) ==
    IF data # <<>>
    THEN <<[type |-> "search_complete", n |-> data[1].total_checked]>>
    ELSE <<>>

\* one iteration of event_generator's loop: an event is got from the queue
\* and yielded, or the marker ends the loop and the summary follows
GetEvent ==
    /\ stream_pc = "reading"
    /\ Queue # <<>>
    /\ LET event == Head(Queue)
       IN  IF event.type = "_done"
           THEN /\ stream_pc' = "closed"
                /\ emitted' = emitted \o search_complete(result_data)
                /\ finals' = Tail(finals)
                /\ taken' = taken
           ELSE /\ stream_pc' = stream_pc
                /\ emitted' = Append(emitted, event)
                /\ IF event.type = "site_result"
                   THEN taken' = taken + 1 /\ finals' = finals
                   ELSE taken' = taken /\ finals' = Tail(finals)
    /\ UNCHANGED <<result_data, max_concurrency, searchVars, poolVars,
                   classifyVars, poolConfVars, clientVars>>

NextStream ==
    \/ StreamRequest
    \/ RunSearchCalls
    \/ RunSearchFails
    \/ \E t \in Tasks : StartWithPermit(t)
    \/ \E t \in Tasks : StartBlocked(t)
    \/ \E t \in Tasks : ResumeWithPermit(t)
    \/ \E t \in Tasks, resp \in Responses : ReceiveResponse(t, resp)
    \/ \E t \in Tasks, exc \in ExcKinds : RequestFails(t, exc)
    \/ \E t \in Tasks : Retry(t)
    \/ \E t \in Tasks, exc \in ExcKinds : RequestFailsLast(t, exc)
    \/ RunSearchReturns
    \/ GetEvent

\* the pending client.get of task t ends, in a search whose callback
\* cannot raise
StreamTransportStep(t) ==
    \/ \E resp \in Responses : ReceiveResponse(t, resp)
    \/ \E exc \in ExcKinds : RequestFails(t, exc)
    \/ \E exc \in ExcKinds : RequestFailsLast(t, exc)

\* the event loop runs run_search, the tasks and the generator whenever they
\* are ready (the client keeps reading the response); every request ends
StreamFairness ==
    /\ WF_vars(RunSearchCalls \/ RunSearchFails)
    /\ \A t \in Tasks : WF_vars(TaskStep(t))
    /\ \A t \in Tasks : WF_vars(StreamTransportStep(t))
    /\ WF_vars(RunSearchReturns)
    /\ WF_vars(GetEvent)

SpecStream == InitStream /\ [][NextStream]_vars /\ StreamFairness

(* ============================== claims ================================ *)
ResultsFor(rs, t) == {i \in DOMAIN rs : rs[i].site = SITES_DB[t].name}

PastFetch(t) == pc[t] \in {"done", "raised"}

\* every attempt of the task's fetch failed and the failure left the loop
FetchExhausted(t) ==
    /\ PastFetch(t)
    /\ fetched[t] # <<>>
    /\ fetched[t][Len(fetched[t])] = "exc"

InFlight == {t \in Running : pc[t] \in {"get", "sleep"}}

\* C1 (as claimed): a returned search holds exactly one result per site of the
\* truncated catalog, none dropped, none duplicated, and total_checked is the
\* length of all_results.
C1_OneResultPerSite ==
    phase = "returned" =>
        /\ \A t \in DOMAIN sites :
               Cardinality(ResultsFor(outcome.all_results, t)) = 1
        /\ Len(outcome.all_results) = Len(sites)
        /\ outcome.total_checked = Len(outcome.all_results)

\* C2: in a returned outcome total_found is the length of found_profiles and
\* the number of results whose state is "found"; a result has found = TRUE
\* exactly when its state is "found".
C2_TotalFoundConsistent ==
    phase = "returned" =>
        /\ outcome.total_found = Len(outcome.found_profiles)
        /\ outcome.total_found =
               Cardinality({i \in DOMAIN outcome.all_results :
                                outcome.all_results[i].state = "found"})
        /\ \A i \in DOMAIN outcome.all_results :
               outcome.all_results[i].found <=>
                   outcome.all_results[i].state = "found"
        /\ \A i \in DOMAIN outcome.found_profiles :
               outcome.found_profiles[i].state = "found"

C2_Witness ==
    /\ phase = "returned"
    /\ outcome.total_found >= 1
    /\ \E i \in DOMAIN outcome.all_results :
           /\ outcome.all_results[i].status_code = 200
           /\ outcome.all_results[i].state = "unknown"

\* C3: a fetch that failed on every attempt ends as a result record of its
\* site and gives its permit back; a task ends with an exception, and the
\* search raises, only through a callback; a returned search has a result
\* for every site, also next to sites whose fetch failed.
C3_FailureIsolated ==
    /\ \A t \in Running :
           /\ FetchExhausted(t) =>
                  \E i \in ResultsFor(results, t) : results[i].status_code = 0
           /\ pc[t] = "raised" => on_result
    /\ phase = "raised" => on_result
    /\ phase # "idle" =>
           sem + Cardinality({t \in Running : pc[t] \in {"sem_granted", "get", "sleep"}})
               = max_concurrency
    /\ phase = "returned" =>
           \A t \in DOMAIN sites : ResultsFor(outcome.all_results, t) # {}

C3_Witness ==
    /\ phase = "returned"
    /\ ~on_result
    /\ Len(sites) >= 2
    /\ FetchExhausted(1)
    /\ \E i \in ResultsFor(outcome.all_results, 2) :
           outcome.all_results[i].state = "found"

\* C4: the result of a fetch that failed on every attempt has found = FALSE,
\* status 0, no latency and the verdict of its last exception: timeout for a
\* timeout, network_error for another request error, error otherwise; and
\* only these three verdicts come with status 0.
C4_FailureVerdict ==
    /\ \A t \in Running :
           FetchExhausted(t) =>
               \E i \in ResultsFor(results, t) :
                   /\ results[i].found = FALSE
                   /\ results[i].status_code = 0
                   /\ results[i].latency_ms = None
                   /\ last_exc[t] = "timeout" => results[i].state = "timeout"
                   /\ last_exc[t] = "request" => results[i].state = "network_error"
                   /\ last_exc[t] = "other" => results[i].state = "error"
                   /\ last_exc[t] \in ExcKinds
    /\ \A i \in DOMAIN results :
           results[i].status_code = 0 =>
               /\ results[i].state \in {"timeout", "network_error", "error"}
               /\ results[i].found = FALSE
               /\ results[i].latency_ms = None

C4_Witness ==
    \E t \in Running :
        /\ FetchExhausted(t)
        /\ last_exc[t] = "timeout"
        /\ fetched[t] = <<"exc", "exc", "exc">>
        /\ \E i \in ResultsFor(results, t) : results[i].state = "timeout"

\* C5: a task has at most one request in flight, issues at most
\* max_retries + 1 of them, none after a success; once its fetch is over the
\* number of requests is the index of the first success, or max_retries + 1
\* when all failed, and a failure is surfaced only then.
C5_RetryBudget ==
    \A t \in Running :
        /\ sent[t] <= max_retries + 1
        /\ sent[t] - Len(fetched[t]) = (IF pc[t] = "get" THEN 1 ELSE 0)
        /\ \A i \in 1..(Len(fetched[t]) - 1) : fetched[t][i] = "exc"
        /\ pc[t] = "sleep" =>
               /\ Len(fetched[t]) < max_retries + 1
               /\ fetched[t][Len(fetched[t])] = "exc"
        /\ PastFetch(t) =>
               /\ sent[t] = Len(fetched[t])
               /\ sent[t] >= 1
               /\ fetched[t][sent[t]] = "exc" => sent[t] = max_retries + 1
        /\ \A i \in ResultsFor(results, t) :
               (results[i].status_code = 0 /\ fetched[t][Len(fetched[t])] = "exc")
                   => sent[t] = max_retries + 1

C5_Witness ==
    /\ \E t \in Running : PastFetch(t) /\ fetched[t] = <<"exc", "exc", "exc">>
    /\ \E t \in Running : PastFetch(t) /\ fetched[t] = <<"exc", "ok">>

\* C6: never more than max_concurrency tasks are between proxy selection and
\* the end of their fetch (requests and backoff sleeps included).
C6_ConcurrencyCap ==
    Cardinality(InFlight) <= max_concurrency

C6_Witness ==
    /\ Cardinality(InFlight) = max_concurrency
    /\ \E t \in Running : pc[t] = "sem_wait"
    /\ \E t \in Running : pc[t] = "sleep"

\* C7 (as claimed): with a callback, a returned search has invoked it exactly
\* once per site, each time with a result already in the result list.
C7_CallbackOncePerSite ==
    /\ \A i \in DOMAIN delivered : \E j \in DOMAIN results : results[j] = delivered[i]
    /\ (on_result /\ phase = "returned") =>
           \A t \in DOMAIN sites : Cardinality(ResultsFor(delivered, t)) = 1

\* C8: when a search with a callback returns, all_results and the results
\* handed to the callback are the same multiset.
C8_AggregateIsDelivered ==
    (on_result /\ phase = "returned") =>
        /\ Len(outcome.all_results) = Len(delivered)
        /\ \A i \in DOMAIN delivered :
               Cardinality({j \in DOMAIN delivered : delivered[j] = delivered[i]})
                   = Cardinality({j \in DOMAIN outcome.all_results :
                                      outcome.all_results[j] = delivered[i]})

C8_Witness ==
    /\ on_result
    /\ phase = "returned"
    /\ Len(delivered) >= 2
    /\ \E i \in DOMAIN delivered : delivered[i].found
    /\ \E i \in DOMAIN delivered : delivered[i].status_code = 0

Min(a, b) == IF a < b THEN a ELSE b

\* C9 (as claimed): with a limit N, 0 included, exactly the first
\* min(N, len(catalog)) sites are probed, in catalog order; without a limit
\* the whole catalog is.
C9_LimitTruncates ==
    phase # "idle" =>
        /\ sites = IF limit = NoLimit THEN SITES_DB
                   ELSE SubSeq(SITES_DB, 1, Min(limit, Len(SITES_DB)))
        /\ \A t \in Tasks : sent[t] > 0 => t \in DOMAIN sites

\* C10: the status rules decide first, whatever the body, the keywords and
\* the username: 404 not_found, 403 blocked, 429 rate_limited, 500 and above
\* server_error, 301 or 302 on a site without allow_redirect redirect; none
\* of them is found.
C10_StatusRulesFirst ==
    cl_out # NoVerdict =>
        /\ cl_in.status_code = 404 => cl_out.state = "not_found"
        /\ cl_in.status_code = 403 => cl_out.state = "blocked"
        /\ cl_in.status_code = 429 => cl_out.state = "rate_limited"
        /\ cl_in.status_code >= 500 => cl_out.state = "server_error"
        /\ (cl_in.status_code \in {301, 302} /\ ~cl_in.site.allow_redirect)
               => cl_out.state = "redirect"
        /\ (\/ cl_in.status_code \in {404, 403, 429}
            \/ cl_in.status_code >= 500
            \/ (cl_in.status_code \in {301, 302} /\ ~cl_in.site.allow_redirect))
               => /\ cl_out.found = FALSE
                  /\ cl_out.state # "found"

C10_Witness ==
    /\ cl_out.state = "not_found"
    /\ cl_in.status_code = 404
    /\ cl_in.site.negative_keywords = <<>>
    /\ cl_in.username # <<>>
    /\ Contains(lower(cl_in.username), lower(cl_in.text))
    /\ AnyIn(cl_in.site.positive_keywords, lower(cl_in.text))

\* needle occurs in haystack when letter case is ignored, found by comparing
\* the two texts position by position
OccursIgnoringCase(needle, haystack) ==
    \E off \in 0..(Len(haystack) - Len(needle)) :
        \A k \in 1..Len(needle) :
            LowerChar(needle[k]) = LowerChar(haystack[off + k])

AnyOccursIgnoringCase(keywords, haystack) ==
    \E j \in DOMAIN keywords : OccursIgnoringCase(keywords[j], haystack)

PastStatusRules(in) ==
    /\ in.status_code \notin {404, 403, 429}
    /\ in.status_code < 500
    /\ ~(in.status_code \in {301, 302} /\ ~in.site.allow_redirect)

\* C11: for a response the status rules let through, the verdict is found
\* exactly when the status is 200, no negative keyword occurs in the body and
\* the username occurs in it (letter case ignored), whether or not a positive
\* keyword occurs; a negative keyword gives not_found even with the username
\* present; status 200 with a positive keyword and no username gives unknown
\* with the reason "Positive keyword only"; everything else gives unknown.
C11_BodyRules ==
    (cl_out # NoVerdict /\ PastStatusRules(cl_in)) =>
        LET neg == AnyOccursIgnoringCase(cl_in.site.negative_keywords, cl_in.text)
            pos == AnyOccursIgnoringCase(cl_in.site.positive_keywords, cl_in.text)
            usr == OccursIgnoringCase(cl_in.username, cl_in.text)
            ok  == cl_in.status_code = 200
        IN  /\ cl_out.state = "found" <=> (ok /\ ~neg /\ usr)
            /\ cl_out.found <=> cl_out.state = "found"
            /\ neg => cl_out.state = "not_found"
            /\ (ok /\ ~neg /\ ~usr /\ pos) =>
                   /\ cl_out.state = "unknown"
                   /\ cl_out.reason = "Positive keyword only"
            /\ (~neg /\ ~(ok /\ usr)) => cl_out.state = "unknown"

\* the username typed in another letter case than the body carries it, found
\* without any positive keyword
C11_Witness ==
    /\ cl_out # NoVerdict
    /\ cl_out.state = "found"
    /\ cl_in.username # <<>>
    /\ ~Contains(cl_in.username, cl_in.text)
    /\ cl_in.site.positive_keywords = <<>>
    /\ cl_in.site.negative_keywords # <<>>

\* C12: get_proxy on a disabled pool, or on a pool without records, returns
\* None and leaves every record and the round-robin cursor as they were.
C12_DisabledOrEmptyGivesNone ==
    [][(call'.name = "get_proxy" /\ (~enabled \/ proxies = <<>>)) =>
           /\ call'.result = 0
           /\ proxies' = proxies
           /\ index' = index]_vars

\* a disabled pool asked for a proxy while it holds a record whose cooldown
\* has lapsed: the record keeps its failure time
C12_Witness ==
    /\ call.name = "get_proxy"
    /\ call.result = 0
    /\ ~enabled
    /\ \E i \in DOMAIN proxies : CooledDown(proxies[i], now)

\* the positions of the records whose last failure time is unset or lies at
\* least the cooldown in the past
EligibleAt(ps, t) ==
    {i \in DOMAIN ps :
         \/ ps[i].last_failure_ts = 0
         \/ ps[i].last_failure_ts + failure_cooldown <= t}

\* C13: on an enabled pool with records the healthy subset is exactly the set
\* of records never failed or failed at least the cooldown ago; get_proxy
\* returns a member of it whenever it has one and None otherwise, so never a
\* record that failed less than the cooldown ago; the selection that finds a
\* record's cooldown lapsed resets its last failure time, and no other
\* record's failure time changes.
C13_CooldownEligibility ==
    /\ [](LET hp == _healthy_pool(proxies, now).healthy
          IN  {hp[k] : k \in DOMAIN hp} = EligibleAt(proxies, now))
    /\ [][(call'.name = "get_proxy" /\ enabled /\ proxies # <<>>) =>
             LET E == EligibleAt(proxies, now)
             IN  /\ E # {} => call'.result \in E
                 /\ E = {} => call'.result = 0
                 /\ DOMAIN proxies' = DOMAIN proxies
                 /\ \A i \in DOMAIN proxies :
                        proxies'[i] =
                            IF i \in E
                            THEN [proxies[i] EXCEPT !.last_failure_ts = 0]
                            ELSE proxies[i]]_vars

\* a record that failed, selected again after its cooldown and reset by that
\* selection, next to a record still in its cooldown
C13_Witness ==
    /\ call.name = "get_proxy"
    /\ call.result # 0
    /\ proxies[call.result].failure_count >= 1
    /\ proxies[call.result].last_failure_ts = 0
    /\ \E j \in DOMAIN proxies :
           /\ proxies[j].last_failure_ts # 0
           /\ now - proxies[j].last_failure_ts < failure_cooldown

\* C20: mark_failure with the id of a record sets that record's last failure
\* time to the current time and adds one to its failure_count; its
\* success_count, id and url, every other record, the cursor and the enabled
\* flag stay as they were.  mark_failure and mark_success with an id no
\* record carries change nothing.
C20_MarkFailureFrame ==
    [][LET hits == {i \in DOMAIN proxies : proxies[i].id = call'.arg}
       IN  /\ (call'.name = "mark_failure" /\ hits # {}) =>
                  /\ Cardinality(hits) = 1
                  /\ DOMAIN proxies' = DOMAIN proxies
                  /\ \A i \in DOMAIN proxies :
                         proxies'[i] =
                             IF i \in hits
                             THEN [id |-> proxies[i].id, url |-> proxies[i].url,
                                   last_failure_ts |-> now,
                                   success_count |-> proxies[i].success_count,
                                   failure_count |-> proxies[i].failure_count + 1]
                             ELSE proxies[i]
                  /\ index' = index
                  /\ enabled' = enabled
           /\ (call'.name \in {"mark_failure", "mark_success"} /\ hits = {}) =>
                  /\ proxies' = proxies
                  /\ index' = index
                  /\ enabled' = enabled]_vars

\* a failure marked on a record that has a success on its count, in an
\* enabled pool of two records whose cursor has moved
C20_Witness ==
    /\ call.name = "mark_failure"
    /\ enabled
    /\ index >= 1
    /\ Len(proxies) >= 2
    /\ \E i \in DOMAIN proxies :
           /\ proxies[i].id = call.arg
           /\ proxies[i].last_failure_ts = now
           /\ proxies[i].failure_count = 1
           /\ proxies[i].success_count = 1

\* every record has failed less than the cooldown ago
AllCoolingDown(ps, t) ==
    \A i \in DOMAIN ps :
        /\ ps[i].last_failure_ts # 0
        /\ t - ps[i].last_failure_ts < failure_cooldown

\* task t passes from the semaphore into its fetch in this step
EntersFetch(t) == pc[t] \in {"created", "sem_granted"} /\ pc'[t] = "get"

\* C14: a task that enters its fetch while the enabled pool has records and
\* every one of them is in its cooldown gets no proxy and issues its request
\* directly, with allow_direct_fallback set or not; the result of a task
\* without proxy has via_proxy = FALSE and neither proxy id nor proxy url;
\* neither a task nor the search ends with an exception for want of a proxy.
C14_DirectWhenAllCooling ==
    /\ [][\A t \in Tasks :
              (EntersFetch(t) /\ enabled /\ proxies # <<>>
                  /\ AllCoolingDown(proxies, now)) =>
                  /\ proxy'[t] = 0
                  /\ sent'[t] = sent[t] + 1
                  /\ proxies' = proxies
                  /\ index' = index]_vars
    /\ [](\A t \in Running :
              /\ pc[t] # "raised"
              /\ (pc[t] = "done" /\ proxy[t] = 0) =>
                     /\ ResultsFor(results, t) # {}
                     /\ \A i \in ResultsFor(results, t) :
                            /\ results[i].via_proxy = FALSE
                            /\ results[i].proxy_id = None
                            /\ results[i].proxy_url = None)
    /\ [](phase # "raised")

\* without direct fallback: a search returned while every record is still in
\* its cooldown, one of its sites answered 200 over a direct request
C14_Witness ==
    /\ phase = "returned"
    /\ ~allow_direct_fallback
    /\ enabled
    /\ proxies # <<>>
    /\ AllCoolingDown(proxies, now)
    /\ \E t \in Running :
           /\ proxy[t] = 0
           /\ \E i \in ResultsFor(outcome.all_results, t) :
                  /\ outcome.all_results[i].status_code = 200
                  /\ outcome.all_results[i].via_proxy = FALSE

\* C15 (as claimed): once the pool holds a record, no ensure_proxies call
\* replaces, removes or resets a record, however ensure_proxies calls and the
\* pool's other clients interleave: a step in which an ensure_proxies call
\* finishes on a pool with records leaves the record list as it was.
C15_EnsureNeverRefreshes ==
    [][(call'.name = "ensure_proxies" /\ proxies # <<>>) =>
           proxies' = proxies]_vars

\* C16 (as claimed): with at least one permit and a transport whose every
\* request ends, every started search eventually returns, a returned search
\* has a result for every site of the truncated catalog, and no task stays
\* queued on the semaphore for ever.
C16_EverySearchReturns ==
    /\ (phase = "running") ~> (phase = "returned")
    /\ [](phase = "returned" =>
              \A t \in DOMAIN sites : ResultsFor(outcome.all_results, t) # {})
    /\ \A t \in Tasks : (pc[t] = "sem_wait") ~> (pc[t] # "sem_wait")

\* under the same scheduling every started search ends, by return or by an
\* exception, it returns when no callback was supplied, and every task
\* leaves the semaphore queue and finishes
SearchEnds ==
    /\ (phase = "running") ~> (phase \in {"returned", "raised"})
    /\ (phase = "running" /\ ~on_result) ~> (phase = "returned")
    /\ \A t \in Tasks : (pc[t] = "sem_wait") ~> (pc[t] # "sem_wait")
    /\ \A t \in Tasks :
           (pc[t] \in {"created", "sem_wait", "sem_granted", "get", "sleep"})
               ~> (pc[t] \in {"done", "raised"})

\* the attempts with outcome kind that the tasks holding proxy record p have
\* finished so far
AttemptsThrough(p, kind) ==
    LET Of(t) == Cardinality({k \in DOMAIN fetched[t] : fetched[t][k] = kind})
        RECURSIVE Go(_)
        Go(t) == IF t > NumSites THEN 0
                 ELSE (IF proxy[t] = p THEN Of(t) ELSE 0) + Go(t + 1)
    IN  Go(1)

\* C18: at every moment, so also while the reporting task is in its backoff
\* sleep and when its next attempt is out, a proxy's failure_count is the
\* number of failed attempts made through it and its success_count the
\* number of answered ones: one increment per attempt, made before the step
\* that failed ends, and none by a task without proxy.  A fetch that failed
\* on every attempt has added max_retries + 1.  A task sleeps only after a
\* failed attempt that is not its last.
C18_FailureReportedAtOnce ==
    /\ \A p \in DOMAIN proxies :
           /\ proxies[p].failure_count = AttemptsThrough(p, "exc")
           /\ proxies[p].success_count = AttemptsThrough(p, "ok")
    /\ \A t \in Running :
           /\ (FetchExhausted(t) /\ proxy[t] # 0) =>
                  proxies[proxy[t]].failure_count >= max_retries + 1
           /\ pc[t] = "sleep" =>
                  /\ fetched[t] # <<>>
                  /\ fetched[t][Len(fetched[t])] = "exc"
                  /\ Len(fetched[t]) <= max_retries
           /\ PastFetch(t) => pc[t] # "sleep"

\* a task asleep after its second failure through a proxy whose count holds
\* both failures, and the success of another task that went through it
C18_Witness ==
    \E t \in Running :
        /\ pc[t] = "sleep"
        /\ proxy[t] # 0
        /\ Len(fetched[t]) = 2
        /\ proxies[proxy[t]].failure_count = 2
        /\ proxies[proxy[t]].success_count = 1
        /\ \E u \in Running :
               /\ u # t
               /\ proxy[u] = proxy[t]
               /\ pc[u] = "done"

\* C19 (as claimed): no request is sent through a proxy whose last reported
\* failure is less than the cooldown old, neither by another task nor by a
\* retry of the task that reported the failure: whenever a task sends a
\* request through a proxy, that proxy's record is out of its cooldown.
C19_NoAttemptThroughCoolingProxy ==
    [][\A t \in Tasks :
           (sent'[t] = sent[t] + 1 /\ proxy'[t] # 0) =>
               \/ proxies'[proxy'[t]].last_failure_ts = 0
               \/ now' - proxies'[proxy'[t]].last_failure_ts >= failure_cooldown]_vars

EmittedOfType(type) == {i \in DOMAIN emitted : emitted[i].type = type}

\* C17: in one stream, search_complete is the last event yielded, so every
\* site_result comes before it and it comes at most once; it is yielded only
\* after the search returned, reports the aggregate's total_checked, and
\* that is the number of site_result events yielded.  Once the search has
\* ended, by return or by exception, the marker is on the queue until the
\* generator gets it; a stream whose search raised yields an error event
\* and no search_complete; every stream that was opened is closed.
C17_StreamOrder ==
    /\ [](\A i \in EmittedOfType("search_complete") :
              /\ i = Len(emitted)
              /\ stream_pc = "closed"
              /\ phase = "returned"
              /\ emitted[i].n = outcome.total_checked
              /\ emitted[i].n = Cardinality(EmittedOfType("site_result")))
    /\ [](phase \in {"returned", "raised"} =>
              \/ stream_pc = "closed"
              \/ \E k \in DOMAIN finals : finals[k] = "_done")
    /\ [](stream_pc = "closed" =>
              /\ phase \in {"returned", "raised"}
              /\ Queue = <<>>
              /\ phase = "returned" => EmittedOfType("search_complete") # {}
              /\ phase = "raised" =>
                     /\ EmittedOfType("error") # {}
                     /\ EmittedOfType("search_complete") = {})
    /\ (stream_pc = "reading") ~> (stream_pc = "closed")

\* a closed stream that yielded a site_result for each of two sites and then
\* the summary
C17_Witness ==
    /\ stream_pc = "closed"
    /\ Len(emitted) = 3
    /\ emitted[1].type = "site_result"
    /\ emitted[2].type = "site_result"
    /\ emitted[3] = [type |-> "search_complete", n |-> 2]
    /\ outcome.total_checked = 2

\* C21: mark_success with the id of a record adds one to that record's
\* success_count and changes nothing else: the record's last failure time
\* and failure_count, every other record, the cursor and the enabled flag
\* stay as they were, so the set of records a selection may return is the
\* same before and after, and a record in its cooldown stays left out.
C21_MarkSuccessFrame ==
    [][LET hits == {i \in DOMAIN proxies : proxies[i].id = call'.arg}
       IN  (call'.name = "mark_success" /\ hits # {}) =>
               /\ Cardinality(hits) = 1
               /\ DOMAIN proxies' = DOMAIN proxies
               /\ \A i \in DOMAIN proxies :
                      proxies'[i] =
                          IF i \in hits
                          THEN [id |-> proxies[i].id, url |-> proxies[i].url,
                                last_failure_ts |-> proxies[i].last_failure_ts,
                                success_count |-> proxies[i].success_count + 1,
                                failure_count |-> proxies[i].failure_count]
                          ELSE proxies[i]
               /\ index' = index
               /\ enabled' = enabled
               /\ EligibleAt(proxies', now') = EligibleAt(proxies, now)]_vars

\* a success reported for a record that failed less than the cooldown ago:
\* it keeps its failure time and is not eligible
C21_Witness ==
    /\ call.name = "mark_success"
    /\ enabled
    /\ \E i \in DOMAIN proxies :
           /\ proxies[i].id = call.arg
           /\ proxies[i].success_count = 1
           /\ proxies[i].failure_count = 1
           /\ proxies[i].last_failure_ts # 0
           /\ i \notin EligibleAt(proxies, now)

\* the member of E that has k members of E before it in pool order
MemberAt(E, k) == CHOOSE e \in E : Cardinality({x \in E : x < e}) = k

\* the member of E that follows e in pool order, the first after the last
NextInCycle(E, e) ==
    IF \E x \in E : x > e
    THEN CHOOSE x \in E : x > e /\ \A y \in E : y > e => x <= y
    ELSE CHOOSE x \in E : \A y \in E : x <= y

RoundRobinSelection ==
    /\ call'.name = "get_proxy"
    /\ enabled
    /\ rotation_mode = "round_robin"
    /\ EligibleAt(proxies, now) # {}

\* C22: in round_robin mode a selection returns the healthy record at the
\* cursor's slot (cursor modulo the size n of the healthy subset) and moves
\* the cursor to the next slot modulo n, and no other operation moves the
\* cursor; so a selection that directly follows another one returns the
\* next healthy record in pool order, cyclically, never the same slot again
\* when n >= 2, and n selections in a row return each healthy record once.
C22_RoundRobin ==
    [][LET E == EligibleAt(proxies, now)
           n == Cardinality(E)
       IN  /\ RoundRobinSelection =>
                  /\ call'.result = MemberAt(E, index % n)
                  /\ index' = (index + 1) % n
           /\ (RoundRobinSelection /\ call.name = "get_proxy"
                   /\ call.result \in E) =>
                  call'.result = NextInCycle(E, call.result)
           /\ call'.name # "get_proxy" => index' = index]_vars

\* the selection that returned the last of two healthy records and wrapped
\* the cursor
C22_Witness ==
    /\ call.name = "get_proxy"
    /\ enabled
    /\ rotation_mode = "round_robin"
    /\ Len(proxies) = 2
    /\ EligibleAt(proxies, now) = {1, 2}
    /\ call.result = 2
    /\ index = 0

Max(a, b) == IF a >= b THEN a ELSE b

\* C23 (as claimed): in every reachable state the cursor is at least 0 and
\* below max(1, size of the current healthy subset), and the slot a
\* selection reads lies inside the healthy subset that selection computes.
C23_CursorInvariantAlways ==
    /\ [](/\ 0 <= index
          /\ index < Max(1, Cardinality(EligibleAt(proxies, now))))
    /\ [][RoundRobinSelection =>
             call'.result \in EligibleAt(proxies, now)]_vars

\* C23 (amended): the cursor is never negative; the step of a round-robin
\* selection that finds a healthy subset of size n >= 1 reads slot
\* cursor mod n, which lies inside that subset, and leaves the cursor below
\* n.  Between selections the cursor keeps its value, so after a failure
\* report or a replacement of the pool it can be at or above the size of
\* the healthy subset, until the next selection brings it below again.
C23_CursorAfterSelection ==
    /\ [](0 <= index)
    /\ [][LET E == EligibleAt(proxies, now)
               n == Cardinality(E)
           IN  RoundRobinSelection =>
                   /\ index % n < n
                   /\ call'.result = MemberAt(E, index % n)
                   /\ call'.result \in E
                   /\ 0 <= index'
                   /\ index' < Max(1, n)
                   /\ E = EligibleAt(proxies', now')]_vars

\* a selection made with the cursor at the size of a healthy subset that a
\* failure report had shrunk to one record: the cursor is back at 0
C23_Witness ==
    /\ call.name = "get_proxy"
    /\ call.result # 0
    /\ enabled
    /\ rotation_mode = "round_robin"
    /\ Len(proxies) = 2
    /\ Cardinality(EligibleAt(proxies, now)) = 1
    /\ index = 0
    /\ \E i \in DOMAIN proxies : proxies[i].failure_count = 1 /\ proxies[i].success_count = 1

\* C24 (as claimed): a snapshot changes nothing of the pool, and the health
\* it reports for a record is true exactly when the record has no failure
\* time or its cooldown has elapsed at the time of the snapshot, whether or
\* not a selection has happened since.
C24_SnapshotReportsDerivedHealth ==
    [][call'.name = "snapshot" =>
           /\ UNCHANGED <<poolVars, poolConfVars>>
           /\ Len(snapshot_out'.proxies) = Len(proxies)
           /\ \A i \in DOMAIN proxies :
                  snapshot_out'.proxies[i].healthy =
                      (\/ proxies[i].last_failure_ts = 0
                       \/ now - proxies[i].last_failure_ts >= failure_cooldown)]_vars

\* C25 (as claimed): in a search with a callback, a site whose probe is over
\* has exactly one entry in the result list and its callback was invoked at
\* most once, also when the callback raised while it was handed the site's
\* result; a probe that ended with the callback's exception does not take
\* away the entry of any other finished probe.
C25_CallbackRaiseKeepsOneEntry ==
    on_result =>
        \A t \in Running :
            PastFetch(t) =>
                /\ Cardinality(ResultsFor(results, t)) = 1
                /\ Cardinality(ResultsFor(delivered, t)) <= 1

\* C26: in every result via_proxy is true exactly when proxy_id is set, and
\* proxy_id and proxy_url are set exactly when get_proxy gave the probe a
\* record, on the success path and in the except clause alike; the record
\* they name is the one the probe was given, the probe is given it by the
\* selection made when it enters its fetch, and it keeps it through all its
\* attempts.
C26_ProxyFieldsConsistent ==
    /\ [](\A i \in DOMAIN results :
              /\ results[i].via_proxy <=> results[i].proxy_id # None
              /\ results[i].proxy_id # None <=> results[i].proxy_url # None)
    /\ [](\A t \in Running :
              \A i \in ResultsFor(results, t) :
                  /\ results[i].proxy_id # None <=> proxy[t] # 0
                  /\ proxy[t] # 0 =>
                         /\ results[i].proxy_id = proxies[proxy[t]].id
                         /\ results[i].proxy_url = proxies[proxy[t]].url)
    /\ [][\A t \in Tasks :
              /\ EntersFetch(t) =>
                     \/ proxy'[t] = 0
                     \/ enabled /\ proxy'[t] \in EligibleAt(proxies, now)
              /\ pc[t] \in {"get", "sleep"} =>
                     /\ proxy'[t] = proxy[t]
                     /\ proxy[t] # 0 => proxies'[proxy[t]].id = proxies[proxy[t]].id]_vars

\* one probe ended on the success path and another in the except clause,
\* each through a proxy of its own, the latter after max_retries + 1
\* attempts
C26_Witness ==
    /\ \E i \in DOMAIN results :
           results[i].status_code = 200 /\ results[i].proxy_id = "proxy-1"
    /\ \E i \in DOMAIN results :
           /\ results[i].status_code = 0
           /\ results[i].via_proxy
           /\ results[i].proxy_id = "proxy-2"
    /\ \E t \in Running : PastFetch(t) /\ Len(fetched[t]) = max_retries + 1

\* the step ends a proxy_toggle request: at once, or after the fetch of the
\* proxy list that its ensure_proxies waited for
ToggleEnds ==
    \/ call'.name = "proxy_toggle" /\ toggle_pc' = toggle_pc
    \/ call'.name = "ensure_proxies"

\* C27: the step that ends a proxy_toggle request leaves the pool enabled
\* exactly when the request asked for it and the pool then holds at least
\* one record, whether the proxy source returned a list or nothing: the
\* pool is never enabled empty by a request.  A request to disable ends in
\* its first step with the pool disabled and every record as it was.  A
\* request that waits for the proxy source leaves the flag as it is until
\* it ends.
C27_NeverEnabledEmpty ==
    [][/\ ToggleEnds =>
              /\ enabled' <=> (call'.arg # "off" /\ proxies' # <<>>)
              /\ enabled' => Len(proxies') >= 1
       /\ (call'.name = "proxy_toggle" /\ call'.arg = "off") =>
              /\ toggle_pc' = toggle_pc
              /\ ~enabled'
              /\ proxies' = proxies
       /\ (call'.name = "proxy_toggle" /\ toggle_pc' # toggle_pc) =>
              /\ enabled' = enabled
              /\ proxies = <<>> /\ proxies' = <<>>
       /\ call'.name = "proxy_toggle" => proxies' = proxies]_vars

\* a request to enable has ended after the proxy source returned nothing:
\* the pool is empty and disabled
C27_Witness ==
    /\ call.name = "ensure_proxies"
    /\ call.result = 0
    /\ proxies = <<>>
    /\ ~enabled
    /\ \A r \in Requests : toggle_pc[r] = "idle"

====
